---- MODULE Spec2Model ----
(***************************************************************************)
(* State-machine model of the TikTok report bot (src/index.js): the        *)
(* subscription store and its durable file, the command handlers, the      *)
(* delivery cycle (runSchedulerCycle / sendReportToChat) with its          *)
(* suspension points, and the pure helper escapeHtml.                      *)
(***************************************************************************)
EXTENDS Integers, Sequences, FiniteSets, TLC

VARIABLES
  proc,           \* "running" | "crashed" (unhandled rejection ends the process)
  BOT_ADMIN_ID,   \* configured administrator identity, "" when not configured
  subscriptions,  \* in-memory store: a JS value, see JsObject / JsNull
  file,           \* content of ./subscriptions.json
  passes,         \* slot -> state of the runSchedulerCycle invocation running in it
  writeFailures,  \* history: number of fs.writeFileSync calls that have thrown
  last,           \* history: the last handler step and its visible effects
  escIn,          \* argument of escapeHtml (pure-function specification)
  escOut,         \* result of escapeHtml
  data,           \* argument of formatReportMessage (pure-function specification)
  message         \* result of formatReportMessage, line by line

vars == <<proc, BOT_ADMIN_ID, subscriptions, file, passes, writeFailures, last,
          escIn, escOut, data, message>>

(***************************************************************************)
(* Bounds and input sets                                                   *)
(***************************************************************************)
\* invocations of runSchedulerCycle that may be in progress at once
MaxPasses == 2
\* fs.writeFileSync calls that may throw in one run
MaxWriteFailures == 1
\* longest escapeHtml argument
MaxLen == 3
\* longest top_posts array
MaxPosts == 5

ChatIds == {1, -1}
Handles == {"a", "b"}
Senders == {"admin", "other"}
\* characters of escapeHtml arguments
Chars == {"&", "<", ">", ";", "a"}

\* lastSentAt: null
Null == 0
\* lastSentAt: new Date().toISOString(), every instant read as one value
Stamp == 1
\* match[2] undefined: /add without a chat id argument
NoArg == 0
\* tiktokHandle empty or absent
NoHandle == ""

PassIds == 1..MaxPasses

(***************************************************************************)
(* JS values held by `subscriptions`; entries are kept in Object.entries   *)
(* order.                                                                  *)
(***************************************************************************)
JsObject(m) == [kind |-> "object", map |-> m]
JsNull == [kind |-> "null", map |-> <<>>]

Entry(c, h, t) == [chatId |-> c, tiktokHandle |-> h, lastSentAt |-> t]

Keys(m) == {m[i].chatId : i \in 1..Len(m)}

IndexOf(m, c) == CHOOSE i \in 1..Len(m) : m[i].chatId = c

\* the mapping a sequence of entries denotes, order forgotten
AsMapping(m) == {m[i] : i \in 1..Len(m)}

\* integer-like keys ("array indices") are enumerated first, ascending
IsIndexKey(c) == c >= 0

\* (mutant) the assignment replaces the whole object
SetKeyOnly(m, c, rec) == <<rec>>

\* subscriptions[c] = rec
SetKey(m, c, rec) ==
  IF c \in Keys(m)
    THEN [m EXCEPT ![IndexOf(m, c)] = rec]
    ELSE IF IsIndexKey(c)
      THEN LET before == SelectSeq(m, LAMBDA e : IsIndexKey(e.chatId) /\ e.chatId < c)
               after  == SelectSeq(m, LAMBDA e : ~(IsIndexKey(e.chatId) /\ e.chatId < c))
           IN  before \o <<rec>> \o after
      ELSE Append(m, rec)

\* delete subscriptions[c]
DeleteKey(m, c) == SelectSeq(m, LAMBDA e : e.chatId # c)

(***************************************************************************)
(* The durable file                                                        *)
(***************************************************************************)
FileAbsent  == [kind |-> "absent",  map |-> <<>>]
FileEmpty   == [kind |-> "empty",   map |-> <<>>]
FileGarbage == [kind |-> "garbage", map |-> <<>>]
FileNull    == [kind |-> "null",    map |-> <<>>]
FileJson(m) == [kind |-> "json",    map |-> m]

\* JSON.stringify(subs, null, 2): the entries in property order
Stringify(v) == FileJson(v.map)

RECURSIVE InsertAll(_, _)
InsertAll(m, es) ==
  IF es = <<>> THEN m
  ELSE InsertAll(SetKey(m, Head(es).chatId, Head(es)), Tail(es))

\* JSON.parse(data || '{}'); "throw" stands for the SyntaxError
ParseFile(f) ==
  CASE f.kind = "empty"   -> JsObject(<<>>)
    [] f.kind = "garbage" -> [kind |-> "throw", map |-> <<>>]
    [] f.kind = "null"    -> JsNull
    [] OTHER              -> JsObject(InsertAll(<<>>, f.map))

\* loadSubscriptions(): [value, file, failed] for a file f and a disk that
\* accepts (ok) or refuses the write of the initial {}
loadSubscriptions(f, ok) ==
  IF f.kind = "absent"
    THEN [value |-> JsObject(<<>>),
          file |-> IF ok THEN FileJson(<<>>) ELSE f,
          failed |-> ~ok]
    ELSE LET v == ParseFile(f)
         IN  [value |-> IF v.kind = "throw" THEN JsObject(<<>>) ELSE v,
              file |-> f, failed |-> FALSE]

\* (mutant) only the first record is flushed
saveSubscriptionsPartial(subs, ok, f) ==
  IF ok THEN FileJson(SubSeq(subs.map, 1, 1)) ELSE f

\* saveSubscriptions(subs): the file after the call
saveSubscriptions(subs, ok, f) == IF ok THEN Stringify(subs) ELSE f

\* (mutant) no open mode: only the configured identity passes
isAdminStrict(from) == from = BOT_ADMIN_ID

\* isAdmin(msg)
isAdmin(from) == IF BOT_ADMIN_ID = "" THEN TRUE ELSE from = BOT_ADMIN_ID

(***************************************************************************)
(* escapeHtml (pure)                                                       *)
(***************************************************************************)
\* a JS value passed to escapeHtml: null/undefined, or the characters of String(text)
NullText == [isNull |-> TRUE, chars |-> <<>>]
Text(s) == [isNull |-> FALSE, chars |-> s]

RECURSIVE ReplaceAll(_, _, _)
\* s.replace(/ch/g, rep) for a one-character pattern
ReplaceAll(s, ch, rep) ==
  IF s = <<>> THEN <<>>
  ELSE (IF Head(s) = ch THEN rep ELSE <<Head(s)>>) \o ReplaceAll(Tail(s), ch, rep)

AmpEntity == <<"&", "a", "m", "p", ";">>
LtEntity  == <<"&", "l", "t", ";">>
GtEntity  == <<"&", "g", "t", ";">>

\* (mutant) the ampersand is replaced last
escapeHtmlAmpLast(text) ==
  IF text.isNull THEN <<>>
  ELSE ReplaceAll(ReplaceAll(ReplaceAll(text.chars, "<", LtEntity), ">", GtEntity),
                  "&", AmpEntity)

escapeHtml(text) ==
  IF text.isNull THEN <<>>
  ELSE ReplaceAll(ReplaceAll(ReplaceAll(text.chars, "&", AmpEntity), "<", LtEntity),
                  ">", GtEntity)

(***************************************************************************)
(* formatReportMessage (pure). A message is the sequence of its lines; a    *)
(* property of a post is a JS value: NullText when absent, else Text(s).    *)
(***************************************************************************)
\* a ?? b
Nullish(a, b) == IF a.isNull THEN b ELSE a

\* a || b (for strings: the empty string is falsy)
OrElse(a, b) == IF a.isNull \/ a.chars = <<>> THEN b ELSE a

Post(like, digg, sip, perm, pic) ==
  [like_count |-> like, diggCount |-> digg, si_permalink |-> sip,
   permalink |-> perm, si_picture |-> pic]

\* data.top_posts: absent, a value that is not an array (it may still have
\* a length and elements), or an array
TopPostsAbsent    == [kind |-> "undefined", items |-> <<>>]
TopPostsObject(s) == [kind |-> "object", items |-> s]
TopPostsArray(s)  == [kind |-> "array", items |-> s]

\* analytics with every field but top_posts absent
Data(tp) == [top_posts |-> tp]
NoData == Data(TopPostsAbsent)

Line(kind, n, text) == [kind |-> kind, n |-> n, text |-> text]

\* lines 121-128: the fixed lines of the report
ReportHead ==
  <<Line("title", 0, <<>>), Line("profile", 0, <<>>), Line("blank", 0, <<>>),
    Line("followers", 0, <<"0">>), Line("engagement", 0, <<"0">>),
    Line("posts", 0, <<"0">>), Line("blank", 0, <<>>),
    Line("views", 0, <<"0">>), Line("avgViews", 0, <<"0", ".", "0">>),
    Line("avgLikes", 0, <<"0", ".", "0">>)>>

\* line 134: p.like_count ?? p.diggCount ?? 0
LikesOf(p) == Nullish(Nullish(p.like_count, p.diggCount), Text(<<"0">>))

\* line 136: p.si_permalink || p.permalink || p.si_picture || ''
LinkOf(p) == OrElse(OrElse(OrElse(p.si_permalink, p.permalink), p.si_picture), Text(<<>>))

\* lines 134-140: the lines of one post, idx counted from 0
PostLines(p, idx) ==
  <<Line("likes", idx + 1, escapeHtml(LikesOf(p)))>>
  \o (IF LinkOf(p).chars # <<>> THEN <<Line("link", 0, escapeHtml(LinkOf(p)))>> ELSE <<>>)

RECURSIVE ForEachPost(_, _)
\* top.forEach((p, idx) => ...) from index idx on
ForEachPost(top, idx) ==
  IF idx >= Len(top) THEN <<>>
  ELSE PostLines(top[idx + 1], idx) \o ForEachPost(top, idx + 1)

\* (mutant) no slice: every post is rendered
TopUnsliced(items) == items

\* line 131: data.top_posts.slice(0, 3)
Top(items) == SubSeq(items, 1, IF Len(items) < 3 THEN Len(items) ELSE 3)

formatReportMessage(d) ==
  ReportHead
  \o (IF d.top_posts.kind = "array" /\ Len(d.top_posts.items) > 0
        THEN <<Line("blank", 0, <<>>), Line("topHeader", 0, <<>>)>>
             \o ForEachPost(Top(d.top_posts.items), 0)
        ELSE <<>>)

(***************************************************************************)
(* One invocation of runSchedulerCycle. A slot is "idle" when no           *)
(* invocation runs in it. reported / errors / fallbacks describe the       *)
(* entry being handled (entries[i]).                                       *)
(***************************************************************************)
IdlePass == [pc |-> "idle", entries |-> <<>>, i |-> 0, fetched |-> <<>>,
             reported |-> FALSE, errors |-> 0, fallbacks |-> 0]

\* the [chatId, info] pairs of Object.entries(subscriptions); only
\* info.tiktokHandle is ever read through the snapshot
Snapshot(m) == [k \in 1..Len(m) |->
                  [chatId |-> m[k].chatId, tiktokHandle |-> m[k].tiktokHandle]]

\* the entries of a snapshot that line 181 does not skip
WithHandle(es) == SelectSeq(es, LAMBDA e : e.tiktokHandle # NoHandle)

\* (mutant) an entry's failure ends the pass
LoopStopsAfterError(ps, from) ==
  LET todo == {j \in from..Len(ps.entries) : ps.entries[j].tiktokHandle # NoHandle}
  IN  IF todo = {} \/ ps.errors > 0 THEN IdlePass
      ELSE LET j == CHOOSE k \in todo : \A l \in todo : k <= l
           IN  [ps EXCEPT !.pc = "fetch", !.i = j,
                          !.fetched = Append(@, ps.entries[j]),
                          !.reported = FALSE, !.errors = 0, !.fallbacks = 0]

\* (mutant) line 181 is missing: entries without a handle are fetched too
LoopNoSkip(ps, from) ==
  IF from > Len(ps.entries) THEN IdlePass
  ELSE [ps EXCEPT !.pc = "fetch", !.i = from,
                  !.fetched = Append(@, ps.entries[from]),
                  !.reported = FALSE, !.errors = 0, !.fallbacks = 0]

\* the for-loop from position `from` up to its next await: entries without a
\* handle are skipped; the first one with a handle gets its fetch issued;
\* with none left the invocation returns
Loop(ps, from) ==
  LET todo == {j \in from..Len(ps.entries) : ps.entries[j].tiktokHandle # NoHandle}
  IN  IF todo = {} THEN IdlePass
      ELSE LET j == CHOOSE k \in todo : \A l \in todo : k <= l
           IN  [ps EXCEPT !.pc = "fetch", !.i = j,
                          !.fetched = Append(@, ps.entries[j]),
                          !.reported = FALSE, !.errors = 0, !.fallbacks = 0]

\* runSchedulerCycle() up to its first await, on store value v
StartPass(v) ==
  IF v.kind = "null" THEN [IdlePass EXCEPT !.pc = "rejected"]
  ELSE Loop([IdlePass EXCEPT !.entries = Snapshot(v.map)], 1)

\* (mutant) no catch block: the error leaves sendReportToChat and the pass
CatchRethrows(ps) == [ps EXCEPT !.pc = "rejected"]

\* the catch block of sendReportToChat: console.error, then the fallback send
Catch(ps) == [ps EXCEPT !.pc = "fallback", !.errors = @ + 1, !.fallbacks = @ + 1]

\* an unhandled rejection of a pass ends the process
ProcAfter(ps) == IF ps.pc = "rejected" THEN "crashed" ELSE "running"

\* the last step: the handler, the command's sender, chat and handle (when it is
\* a command), what it answered or how it ended, and whether it wrote the file
Ev(op, from, chat, link, outcome, wrote) ==
  [op |-> op, from |-> from, chat |-> chat, link |-> link,
   outcome |-> outcome, wrote |-> wrote]

WriteResult(ok) == IF ok THEN "ok" ELSE "failed"

\* whether a write may succeed (TRUE) or throw (FALSE) now
WriteOutcomes == IF writeFailures < MaxWriteFailures THEN {TRUE, FALSE} ELSE {TRUE}

(***************************************************************************)
(* Startup: lines 56 and 188-189                                           *)
(***************************************************************************)
\* file contents a start can find: mappings a previous run or an editor left
InitMaps ==
  {<<>>}
  \cup {<<Entry(c, h, t)>> : c \in ChatIds, h \in {"a", NoHandle}, t \in {Null, Stamp}}
  \cup {<<Entry(-1, NoHandle, Null), Entry(1, "a", Stamp)>>,
        <<Entry(1, "b", Null), Entry(-1, "a", Null)>>}
InitFiles ==
  {FileAbsent, FileEmpty, FileGarbage, FileNull} \cup {FileJson(m) : m \in InitMaps}

Init ==
  \E f \in InitFiles, ok \in BOOLEAN, admin \in {"", "admin"} :
    LET ld == loadSubscriptions(f, ok)
        p1 == StartPass(ld.value)
    IN  /\ (ok \/ f.kind = "absent")
        /\ BOT_ADMIN_ID = admin
        /\ subscriptions = ld.value
        /\ file = ld.file
        /\ writeFailures = IF ld.failed THEN 1 ELSE 0
        /\ passes = [p \in PassIds |-> IF p = 1 THEN p1 ELSE IdlePass]
        /\ proc = ProcAfter(p1)
        /\ last = Ev("boot", "", 0, "", f.kind,
                     IF f.kind = "absent" THEN WriteResult(ok) ELSE "none")
        /\ escIn = NullText
        /\ escOut = <<>>
        /\ data = NoData
        /\ message = <<>>

(***************************************************************************)
(* Command handlers: lines 195-274                                         *)
(***************************************************************************)
\* /start
Start(from) ==
  /\ proc = "running"
  /\ last' = Ev("start", from, 0, "", "help", "none")
  /\ UNCHANGED <<proc, BOT_ADMIN_ID, subscriptions, file, passes, writeFailures,
                 escIn, escOut, data, message>>

\* (mutant) the record keeps a timestamp
NewRecordStamped(c, link) == Entry(c, link, Stamp)

\* lines 213-216: { tiktokHandle: tiktokLink, lastSentAt: null }
NewRecord(c, link) == Entry(c, link, Null)

\* /add link [chatId], sent by `from` in chat `chat`
Add(from, chat, link, arg) ==
  /\ proc = "running"
  /\ IF ~isAdmin(from)
       THEN /\ last' = Ev("add", from, 0, "", "none", "none")
            /\ UNCHANGED <<subscriptions, file, writeFailures>>
       ELSE \E ok \in WriteOutcomes :
              LET chatIdToUse == IF arg # NoArg THEN arg ELSE chat
                  subs == JsObject(SetKey(subscriptions.map, chatIdToUse,
                                          NewRecord(chatIdToUse, link)))
              IN  /\ subscriptions' = subs
                  /\ file' = saveSubscriptions(subs, ok, file)
                  /\ writeFailures' = writeFailures + (IF ok THEN 0 ELSE 1)
                  /\ last' = Ev("add", from, chatIdToUse, link, "added", WriteResult(ok))
  /\ UNCHANGED <<proc, BOT_ADMIN_ID, passes, escIn, escOut, data, message>>

\* (mutant) the save is made after the if/else, whether or not a record was deleted
RemAlwaysSaves(from, chatIdToRemove) ==
  /\ proc = "running"
  /\ IF ~isAdmin(from)
       THEN /\ last' = Ev("rem", from, 0, "", "none", "none")
            /\ UNCHANGED <<subscriptions, file, writeFailures>>
       ELSE \E ok \in WriteOutcomes :
              LET subs == JsObject(SelectSeq(subscriptions.map,
                                             LAMBDA e : e.chatId # chatIdToRemove))
              IN  /\ subscriptions' = subs
                  /\ file' = IF ok THEN FileJson(subs.map) ELSE file
                  /\ writeFailures' = writeFailures + (IF ok THEN 0 ELSE 1)
                  /\ last' = Ev("rem", from, chatIdToRemove, "",
                                IF chatIdToRemove \in Keys(subscriptions.map)
                                  THEN "removed" ELSE "notfound",
                                WriteResult(ok))
  /\ UNCHANGED <<proc, BOT_ADMIN_ID, passes, escIn, escOut, data, message>>

\* /rem chatId
Rem(from, chatIdToRemove) ==
  /\ proc = "running"
  /\ IF ~isAdmin(from)
       THEN /\ last' = Ev("rem", from, 0, "", "none", "none")
            /\ UNCHANGED <<subscriptions, file, writeFailures>>
       ELSE IF chatIdToRemove \in Keys(subscriptions.map)
         THEN \E ok \in WriteOutcomes :
                LET subs == JsObject(DeleteKey(subscriptions.map, chatIdToRemove))
                IN  /\ subscriptions' = subs
                    /\ file' = saveSubscriptions(subs, ok, file)
                    /\ writeFailures' = writeFailures + (IF ok THEN 0 ELSE 1)
                    /\ last' = Ev("rem", from, chatIdToRemove, "", "removed", WriteResult(ok))
         ELSE /\ last' = Ev("rem", from, chatIdToRemove, "", "notfound", "none")
              /\ UNCHANGED <<subscriptions, file, writeFailures>>
  /\ UNCHANGED <<proc, BOT_ADMIN_ID, passes, escIn, escOut, data, message>>

\* /list
List(from) ==
  /\ proc = "running"
  /\ last' = Ev("list", from, 0, "",
                IF ~isAdmin(from) THEN "none"
                ELSE IF Len(subscriptions.map) = 0 THEN "empty" ELSE "list",
                "none")
  /\ UNCHANGED <<proc, BOT_ADMIN_ID, subscriptions, file, passes, writeFailures,
                 escIn, escOut, data, message>>

(***************************************************************************)
(* Delivery cycle: lines 151-189                                           *)
(***************************************************************************)
\* setInterval(runSchedulerCycle, TWELVE_HOURS_MS) fires: a new invocation
\* starts whether or not earlier ones have returned
TimerFire ==
  /\ proc = "running"
  /\ \E p \in PassIds :
       /\ passes[p].pc = "idle"
       /\ \A q \in PassIds : passes[q].pc = "idle" => p <= q
       /\ LET ps == StartPass(subscriptions)
          IN  /\ passes' = [passes EXCEPT ![p] = ps]
              /\ proc' = ProcAfter(ps)
  /\ last' = Ev("timer", "", 0, "", "started", "none")
  /\ UNCHANGED <<BOT_ADMIN_ID, subscriptions, file, writeFailures, escIn, escOut, data, message>>

\* the pass after `await fetchTikTokAnalytics` settles and formatReportMessage ran
AfterFetch(ps, outcome) ==
  IF outcome = "ok" THEN [ps EXCEPT !.pc = "send"] ELSE Catch(ps)

\* line 153-158: the fetch of pass p settles; on success the report is formatted
\* and its send issued
FetchDone(p, outcome) ==
  /\ proc = "running"
  /\ passes[p].pc = "fetch"
  /\ LET ps == AfterFetch(passes[p], outcome)
     IN  /\ passes' = [passes EXCEPT ![p] = ps]
         /\ proc' = ProcAfter(ps)
  /\ last' = Ev("fetch", "", passes[p].entries[passes[p].i].chatId, "", outcome, "none")
  /\ UNCHANGED <<BOT_ADMIN_ID, subscriptions, file, writeFailures, escIn, escOut, data, message>>

\* line 159: subscriptions[chatId].lastSentAt = new Date().toISOString()
\* throws a TypeError when subscriptions[chatId] is undefined
MarkSentThrows(m, c) == c \notin Keys(m)

markSent(m, c, t) == [m EXCEPT ![IndexOf(m, c)].lastSentAt = t]

\* (mutant) saveSubscriptions has no try/catch: a write error reaches the
\* catch of sendReportToChat
AfterSaveRaises(ps, ok) ==
  IF ok THEN [ps EXCEPT !.pc = "delay", !.reported = TRUE]
  ELSE Catch([ps EXCEPT !.reported = TRUE])

\* (mutant) the loop paces only after a failure: a recorded send goes
\* straight on to the next entry
AfterSaveNoDelay(ps, ok) == Loop([ps EXCEPT !.reported = TRUE], ps.i + 1)

\* line 160: the pass after saveSubscriptions returned, the write having
\* succeeded (ok) or thrown inside it; sendReportToChat returns either way
AfterSave(ps, ok) == [ps EXCEPT !.pc = "delay", !.reported = TRUE]

\* the pass after a rejected report send
AfterSendError(ps) == Catch(ps)

\* line 155-167: the report send of pass p settles
SendDone(p, delivered) ==
  /\ proc = "running"
  /\ passes[p].pc = "send"
  /\ LET ps == passes[p]
         c  == ps.entries[ps.i].chatId
     IN  IF ~delivered
           THEN /\ passes' = [passes EXCEPT ![p] = AfterSendError(ps)]
                /\ proc' = ProcAfter(AfterSendError(ps))
                /\ last' = Ev("send", "", c, "", "sendError", "none")
                /\ UNCHANGED <<subscriptions, file, writeFailures>>
         ELSE IF MarkSentThrows(subscriptions.map, c)
           THEN /\ passes' = [passes EXCEPT
                                ![p] = Catch([ps EXCEPT !.reported = TRUE])]
                /\ last' = Ev("send", "", c, "", "typeError", "none")
                /\ UNCHANGED <<proc, subscriptions, file, writeFailures>>
         ELSE \E ok \in WriteOutcomes :
                LET subs == JsObject(markSent(subscriptions.map, c, Stamp))
                IN  /\ subscriptions' = subs
                    /\ file' = saveSubscriptions(subs, ok, file)
                    /\ writeFailures' = writeFailures + (IF ok THEN 0 ELSE 1)
                    /\ passes' = [passes EXCEPT ![p] = AfterSave(ps, ok)]
                    /\ last' = Ev("send", "", c, "", "sent", WriteResult(ok))
                    /\ UNCHANGED proc
  /\ UNCHANGED <<BOT_ADMIN_ID, escIn, escOut, data, message>>

\* (mutant) no .catch on the fallback send: its failure rejects the invocation
FallbackDoneEscalates(p, delivered) ==
  /\ proc = "running"
  /\ passes[p].pc = "fallback"
  /\ passes' = [passes EXCEPT ![p].pc = IF delivered THEN "delay" ELSE "rejected"]
  /\ proc' = IF delivered THEN "running" ELSE "crashed"
  /\ last' = Ev("fallback", "", passes[p].entries[passes[p].i].chatId, "",
                IF delivered THEN "sent" ELSE "raised", "none")
  /\ UNCHANGED <<BOT_ADMIN_ID, subscriptions, file, writeFailures, escIn, escOut, data, message>>

\* line 163-166: the fallback send settles; .catch(() => {}) swallows a failure
FallbackDone(p, delivered) ==
  /\ proc = "running"
  /\ passes[p].pc = "fallback"
  /\ passes' = [passes EXCEPT ![p].pc = "delay"]
  /\ last' = Ev("fallback", "", passes[p].entries[passes[p].i].chatId, "",
                IF delivered THEN "sent" ELSE "swallowed", "none")
  /\ UNCHANGED <<proc, BOT_ADMIN_ID, subscriptions, file, writeFailures,
                 escIn, escOut, data, message>>

\* (mutant) the loop goes on only while the chat it handled is registered
DelayDoneIfRegistered(p) ==
  /\ proc = "running"
  /\ passes[p].pc = "delay"
  /\ passes[p].entries[passes[p].i].chatId \in Keys(subscriptions.map)
  /\ passes' = [passes EXCEPT ![p] = Loop(passes[p], passes[p].i + 1)]
  /\ last' = Ev("delay", "", passes[p].entries[passes[p].i].chatId, "",
                IF Loop(passes[p], passes[p].i + 1).pc = "idle"
                  THEN (IF passes[p].errors > 0 THEN "returnedAfterError" ELSE "returned")
                  ELSE (IF passes[p].errors > 0 THEN "nextAfterError" ELSE "next"),
                "none")
  /\ UNCHANGED <<proc, BOT_ADMIN_ID, subscriptions, file, writeFailures,
                 escIn, escOut, data, message>>

\* line 184-185: the pacing delay elapses and the loop goes on
DelayDone(p) ==
  /\ proc = "running"
  /\ passes[p].pc = "delay"
  /\ passes' = [passes EXCEPT ![p] = Loop(passes[p], passes[p].i + 1)]
  /\ last' = Ev("delay", "", passes[p].entries[passes[p].i].chatId, "",
                IF Loop(passes[p], passes[p].i + 1).pc = "idle"
                  THEN (IF passes[p].errors > 0 THEN "returnedAfterError" ELSE "returned")
                  ELSE (IF passes[p].errors > 0 THEN "nextAfterError" ELSE "next"),
                "none")
  /\ UNCHANGED <<proc, BOT_ADMIN_ID, subscriptions, file, writeFailures,
                 escIn, escOut, data, message>>

Command ==
  \/ \E from \in Senders : Start(from)
  \/ \E from \in Senders, chat \in ChatIds, link \in Handles :
       \E arg \in (ChatIds \ {chat}) \cup {NoArg} : Add(from, chat, link, arg)
  \/ \E from \in Senders, c \in ChatIds : Rem(from, c)
  \/ \E from \in Senders : List(from)

\* the next step of the invocation in slot p
StepOf(p) ==
  \/ \E outcome \in {"ok", "fetchError", "formatError"} : FetchDone(p, outcome)
  \/ \E delivered \in BOOLEAN : SendDone(p, delivered)
  \/ \E delivered \in BOOLEAN : FallbackDone(p, delivered)
  \/ DelayDone(p)

\* the steps of the invocations in progress
PassStep == \E p \in PassIds : StepOf(p)

Next == Command \/ TimerFire \/ PassStep

\* the program: commands and timer ticks arrive at any time
Spec == Init /\ [][Next]_vars

(***************************************************************************)
(* The program while every pass returns before the next timer tick (the    *)
(* period is 12 hours): commands interleave with the steps of one pass.    *)
(***************************************************************************)
NoPassRunning == \A p \in PassIds : passes[p].pc = "idle"

NextSerial == Command \/ (NoPassRunning /\ TimerFire) \/ PassStep

SpecSerial == Init /\ [][NextSerial]_vars

(***************************************************************************)
(* The same with no administrator configured and a disk that takes every   *)
(* write, under the scheduling the runtime gives: the timer keeps firing,  *)
(* and every fetch, send and delay of a pass in progress settles.          *)
(***************************************************************************)
InitFair == Init /\ BOT_ADMIN_ID = "" /\ writeFailures = 0

NextFair == NextSerial /\ UNCHANGED writeFailures

Fairness ==
  /\ WF_vars(NoPassRunning /\ TimerFire)
  /\ \A p \in PassIds : WF_vars(StepOf(p) /\ UNCHANGED writeFailures)

SpecFair == InitFair /\ [][NextFair]_vars /\ Fairness

(***************************************************************************)
(* Properties                                                              *)
(***************************************************************************)
Active == {"fetch", "send", "fallback", "delay"}

\* C1: in a pass, a failure of an entry's fetch, format or send does not leave
\* the pass (the invocation is never rejected and the process keeps running):
\* the failing entry goes on to its fallback notice and then to the pacing
\* delay, and a pass returns only from the delay of its last entry, having
\* issued a fetch for every entry of its snapshot that has a handle.
C1_FailureStaysInPass ==
  [][\A p \in PassIds :
       /\ passes[p].pc \in Active =>
            /\ passes'[p].pc # "rejected"
            /\ proc' = "running"
       /\ (passes[p].pc \in {"fetch", "send"} /\ passes'[p].errors > passes[p].errors) =>
            /\ passes'[p].pc = "fallback"
            /\ passes'[p].i = passes[p].i
       /\ (passes[p].pc = "fallback" /\ passes'[p] # passes[p]) =>
            /\ passes'[p].pc = "delay"
            /\ passes'[p].i = passes[p].i
       /\ (passes[p].pc \in Active /\ passes'[p].pc = "idle") =>
            /\ passes[p].pc = "delay"
            /\ passes[p].fetched = WithHandle(passes[p].entries)
       /\ (passes[p].pc = "delay" /\ passes'[p].pc = "fetch") =>
            /\ passes'[p].i > passes[p].i
            /\ passes'[p].entries = passes[p].entries
            /\ passes'[p].fetched = Append(passes[p].fetched, passes[p].entries[passes'[p].i])
    ]_vars

\* C1 witness: after an entry whose handling failed, the pass has issued the
\* fetch of a later entry.
C1_Witness ==
  /\ last.op = "delay"
  /\ last.outcome = "nextAfterError"
  /\ \E p \in PassIds : passes[p].pc = "fetch" /\ passes[p].i > 1

\* the record of chat c in a sequence of entries
Rec(m, c) == m[IndexOf(m, c)]

\* the chat whose entry pass p is handling
Cur(p) == passes[p].entries[passes[p].i].chatId

\* C2: when the report of a pass entry is delivered after /rem removed that
\* chat, recording the send is a no-op: the chat stays out of the store and
\* the entry takes no error path (no error log, no fallback notice) but goes
\* on to the pacing delay.
C2_MarkSentOnRemovedIsNoOp ==
  [][\A p \in PassIds :
       (/\ passes[p].pc = "send"
        /\ passes'[p].reported
        /\ Cur(p) \notin Keys(subscriptions.map)) =>
          /\ Cur(p) \notin Keys(subscriptions'.map)
          /\ passes'[p].errors = 0
          /\ passes'[p].fallbacks = 0
          /\ passes'[p].pc = "delay"
    ]_vars

\* C3: lastSentAt is set only by a successful send: a record made by /add has
\* lastSentAt null; the lastSentAt of a chat turns non-null in memory only in
\* the step in which a report send to that chat is delivered; and a step in
\* which fetch, format or send fails, or in which the fallback send settles,
\* changes neither the store nor the file.
C3_LastSentOnlyOnSuccess ==
  [][/\ \A c \in ChatIds :
          /\ (last'.op = "add" /\ last'.outcome = "added" /\ last'.chat = c) =>
               /\ c \in Keys(subscriptions'.map)
               /\ Rec(subscriptions'.map, c).lastSentAt = Null
          /\ (/\ c \in Keys(subscriptions'.map)
              /\ Rec(subscriptions'.map, c).lastSentAt # Null
              /\ (c \notin Keys(subscriptions.map)
                  \/ Rec(subscriptions.map, c).lastSentAt = Null)) =>
               \E p \in PassIds :
                 /\ passes[p].pc = "send"
                 /\ Cur(p) = c
                 /\ passes'[p].reported
                 /\ passes'[p].errors = 0
     /\ \A p \in PassIds :
          (\/ passes'[p].errors > passes[p].errors
           \/ (passes[p].pc = "fallback" /\ passes'[p].pc = "delay")) =>
            /\ subscriptions' = subscriptions
            /\ file' = file
    ]_vars

\* C3 witness: the handling of a registered chat failed and its fallback send
\* settled; its lastSentAt is still null in memory and in the file.
C3_Witness ==
  \E p \in PassIds :
    /\ passes[p].pc = "delay"
    /\ passes[p].errors > 0
    /\ ~passes[p].reported
    /\ Cur(p) \in Keys(subscriptions.map)
    /\ Rec(subscriptions.map, Cur(p)).lastSentAt = Null
    /\ file = Stringify(subscriptions)
    /\ last.op = "fallback"

\* C4: as long as no write has failed, once add, rem of an existing chat or a
\* delivered send has returned the file is exactly the serialised in-memory
\* mapping, and at every moment a file holding a mapping holds the whole
\* in-memory mapping.
C4_FileEqualsMemory ==
  writeFailures = 0 =>
    /\ (last.outcome \in {"added", "removed", "sent"} /\ last.op # "fallback") =>
         file = Stringify(subscriptions)
    /\ (file.kind = "json" /\ subscriptions.kind = "object") =>
         AsMapping(file.map) = AsMapping(subscriptions.map)

\* C4 witness: a delivered send was recorded and saved while the store holds
\* two chats.
C4_Witness ==
  /\ writeFailures = 0
  /\ last.op = "send"
  /\ last.outcome = "sent"
  /\ Len(subscriptions.map) = 2
  /\ file = Stringify(subscriptions)

\* the store a restart would load from file f (the file exists: no write)
Reloaded(f) == loadSubscriptions(f, TRUE).value

\* what C5 expects of the store v loaded after /add of `link` for chat c on
\* the in-memory mapping m
UpsertReloaded(v, m, c, link) ==
  /\ v.kind = "object"
  /\ Cardinality(AsMapping(v.map)) = Len(v.map)
  /\ AsMapping(v.map) = {e \in AsMapping(m) : e.chatId # c} \cup {Entry(c, link, Null)}

C6_RemFrame ==
  [][(last'.op = "rem" /\ last'.outcome # "none") =>
       IF last'.chat \notin Keys(subscriptions.map)
         THEN /\ last'.outcome = "notfound"
              /\ subscriptions' = subscriptions
              /\ file' = file
              /\ last'.wrote = "none"
              /\ writeFailures' = writeFailures
         ELSE /\ last'.outcome = "removed"
              /\ subscriptions'.map =
                   SelectSeq(subscriptions.map, LAMBDA e : e.chatId # last'.chat)
              /\ Len(subscriptions'.map) = Len(subscriptions.map) - 1
              /\ last'.wrote \in {"ok", "failed"}
              /\ (last'.wrote = "ok") => (file' = Stringify(subscriptions'))
              /\ (last'.wrote = "failed") => (file' = file)
    ]_vars

\* C6 witness: /rem answered "not found" and the file, which no write has
\* touched since startup, is still the malformed one found then.
C6_Witness ==
  /\ last.op = "rem"
  /\ last.outcome = "notfound"
  /\ last.wrote = "none"
  /\ file = FileGarbage

\* C7: with an administrator configured, /add, /rem and /list from anyone else
\* change neither the store nor the file and send no reply; with none
\* configured every sender's /add, /rem and /list is carried out and
\* answered, as is the administrator's; /start is answered for every sender.
C7_Authorization ==
  [][/\ last'.op = "start" => last'.outcome = "help"
     /\ last'.op \in {"add", "rem", "list"} =>
          IF BOT_ADMIN_ID # "" /\ last'.from # BOT_ADMIN_ID
            THEN /\ subscriptions' = subscriptions
                 /\ file' = file
                 /\ last'.outcome = "none"
                 /\ last'.wrote = "none"
            ELSE CASE last'.op = "add" ->
                        /\ last'.outcome = "added"
                        /\ Entry(last'.chat, last'.link, Null)
                             \in AsMapping(subscriptions'.map)
                   [] last'.op = "rem" ->
                        /\ last'.outcome \in {"removed", "notfound"}
                        /\ last'.chat \notin Keys(subscriptions'.map)
                   [] last'.op = "list" ->
                        last'.outcome =
                          IF Len(subscriptions.map) = 0 THEN "empty" ELSE "list"
    ]_vars

\* C7 witness: an administrator is configured and a command of another sender
\* was ignored while the store holds a chat.
C7_Witness ==
  /\ BOT_ADMIN_ID = "admin"
  /\ last.op \in {"add", "rem", "list"}
  /\ last.from = "other"
  /\ last.outcome = "none"
  /\ Len(subscriptions.map) > 0

(***************************************************************************)
(* escapeHtml applied to every text up to MaxLen characters                *)
(***************************************************************************)
RECURSIVE Strings(_)
Strings(n) ==
  IF n = 0 THEN {<<>>}
  ELSE Strings(n - 1) \cup {Append(s, ch) : s \in Strings(n - 1), ch \in Chars}

Texts == {NullText} \cup {Text(s) : s \in Strings(MaxLen)}

InitEscape ==
  /\ escIn \in Texts
  /\ escOut = <<>>
  /\ data = NoData
  /\ message = <<>>
  /\ last = Ev("input", "", 0, "", "pending", "none")
  /\ proc = "running"
  /\ BOT_ADMIN_ID = ""
  /\ subscriptions = JsObject(<<>>)
  /\ file = FileJson(<<>>)
  /\ passes = [p \in PassIds |-> IdlePass]
  /\ writeFailures = 0

\* a call escapeHtml(escIn)
Escape ==
  /\ last.op = "input"
  /\ escOut' = escapeHtml(escIn)
  /\ last' = Ev("escapeHtml", "", 0, "", "returned", "none")
  /\ UNCHANGED <<proc, BOT_ADMIN_ID, subscriptions, file, passes, writeFailures, escIn,
                 data, message>>

SpecEscape == InitEscape /\ [][Escape]_vars

\* the entity of one character
EntityOf(ch) ==
  CASE ch = "&" -> AmpEntity
    [] ch = "<" -> LtEntity
    [] ch = ">" -> GtEntity
    [] OTHER    -> <<ch>>

RECURSIVE OnePass(_)
\* each character of s replaced by its entity, left to right
OnePass(s) == IF s = <<>> THEN <<>> ELSE EntityOf(Head(s)) \o OnePass(Tail(s))

\* entity e stands in s at position k
EntityAt(s, k, e) ==
  /\ k + Len(e) - 1 <= Len(s)
  /\ SubSeq(s, k, k + Len(e) - 1) = e

\* C10: escapeHtml returns the empty string for null/undefined and otherwise
\* the one-pass replacement of each & < > of the argument by its entity; the
\* result holds no < or >, and every & in it begins &amp; &lt; or &gt;.
C10_EscapeHtml ==
  last.op = "escapeHtml" =>
    /\ escIn.isNull => escOut = <<>>
    /\ ~escIn.isNull => escOut = OnePass(escIn.chars)
    /\ \A k \in 1..Len(escOut) :
         /\ escOut[k] \notin {"<", ">"}
         /\ escOut[k] = "&" =>
              \/ EntityAt(escOut, k, AmpEntity)
              \/ EntityAt(escOut, k, LtEntity)
              \/ EntityAt(escOut, k, GtEntity)

\* C10 witness: a text with an ampersand after a < and before a > was escaped.
C10_Witness ==
  /\ last.op = "escapeHtml"
  /\ escIn = Text(<<"<", "&", ">">>)
  /\ escOut = LtEntity \o AmpEntity \o GtEntity

\* the files that C9 calls malformed
Malformed == {"empty", "garbage", "null"}

\* C9: right after startup the process runs, and: a file that was absent now
\* holds the empty mapping (when that write succeeded) and the store is
\* empty; a malformed file left the store the empty mapping and is
\* untouched; a well-formed file is untouched and the store is its mapping.
C9_LoadHandlesEveryFile ==
  last.op = "boot" =>
    /\ proc = "running"
    /\ last.outcome = "absent" =>
         /\ subscriptions = JsObject(<<>>)
         /\ last.wrote = "ok" => file = FileJson(<<>>)
    /\ last.outcome \in Malformed =>
         /\ subscriptions = JsObject(<<>>)
         /\ file.kind = last.outcome
    /\ last.outcome = "json" =>
         /\ subscriptions.kind = "object"
         /\ file.kind = "json"
         /\ AsMapping(subscriptions.map) = AsMapping(file.map)

\* chat c is in the store with a handle
Registered(c) ==
  /\ c \in Keys(subscriptions.map)
  /\ Rec(subscriptions.map, c).tiktokHandle # NoHandle

\* a pass has issued the fetch for chat c and awaits it
Fetching(c) == \E p \in PassIds : passes[p].pc = "fetch" /\ Cur(p) = c

\* C8: the first pass is started at startup, and passes keep being started:
\* again and again, every chat is either being fetched by a pass or not
\* registered with a handle; so a chat that stays registered, whether or not
\* its last delivery failed, gets a fetch in a later pass, forever.
C8_RetriedEveryCycle ==
  /\ proc = "running" => passes[1] = StartPass(subscriptions)
  /\ \A c \in ChatIds : []<>(Fetching(c) \/ ~Registered(c))

\* C8 witness: a pass started by the timer has issued the fetch for a chat
\* that is registered and has never been sent a report.
C8_Witness ==
  \E p \in PassIds :
    /\ last.op = "timer"
    /\ passes[p].pc = "fetch"
    /\ Registered(Cur(p))
    /\ Rec(subscriptions.map, Cur(p)).lastSentAt = Null

\* pass ps is what an invocation on the mapping m is at its first await: it
\* holds the entries of m and has issued the fetch of the first one with a
\* handle, or it has returned when there is none
SnapshotTaken(ps, m) ==
  LET wh == WithHandle(Snapshot(m))
  IN  IF wh = <<>> THEN ps.pc = "idle"
      ELSE /\ ps.pc = "fetch"
           /\ ps.entries = Snapshot(m)
           /\ ps.fetched = <<wh[1]>>
           /\ ps.entries[ps.i] = wh[1]

\* the entries of es up to position i that have a handle
HandledUpTo(es, i) == WithHandle(SubSeq(es, 1, i))

\* C11: a pass holds the entries the store had when it started, and, whatever
\* /add and /rem do meanwhile, keeps them: the fetches it has issued are the
\* entries with a handle up to its position, in order, each once, with the
\* handle of the snapshot; it returns only when that is every entry with a
\* handle; and a pass step changes the store only for the entry it handles,
\* which has a handle.
C11_PassWorksOnSnapshot ==
  /\ subscriptions.kind = "object" => SnapshotTaken(passes[1], subscriptions.map)
  /\ [][/\ last'.op = "timer" =>
            \E p \in PassIds : /\ passes[p].pc = "idle"
                               /\ SnapshotTaken(passes'[p], subscriptions.map)
        /\ \A p \in PassIds :
             /\ passes'[p].pc \in Active =>
                  /\ passes'[p].fetched = HandledUpTo(passes'[p].entries, passes'[p].i)
                  /\ passes'[p].entries[passes'[p].i].tiktokHandle # NoHandle
                  /\ passes'[p].fetched[Len(passes'[p].fetched)]
                       = passes'[p].entries[passes'[p].i]
             /\ (passes[p].pc \in Active /\ passes'[p].pc \in Active) =>
                  /\ passes'[p].entries = passes[p].entries
                  /\ passes'[p].i >= passes[p].i
                  /\ (passes'[p].i > passes[p].i) =>
                       passes'[p].fetched
                         = Append(passes[p].fetched, passes[p].entries[passes'[p].i])
                  /\ (passes'[p].i = passes[p].i) =>
                       passes'[p].fetched = passes[p].fetched
             /\ (passes[p].pc \in Active /\ passes'[p].pc = "idle") =>
                  passes[p].fetched = WithHandle(passes[p].entries)
        /\ (last'.op \in {"timer", "fetch", "send", "fallback", "delay"}
            /\ subscriptions' # subscriptions) =>
             \E p \in PassIds :
               /\ passes[p].pc = "send"
               /\ passes[p].entries[passes[p].i].tiktokHandle # NoHandle
               /\ \A c \in ChatIds \ {Cur(p)} :
                    /\ c \in Keys(subscriptions'.map) <=> c \in Keys(subscriptions.map)
                    /\ c \in Keys(subscriptions.map) =>
                         Rec(subscriptions'.map, c) = Rec(subscriptions.map, c)
       ]_vars

\* C11 witness: a pass has fetched both entries of its snapshot and is at the
\* delay of the last one, while the store no longer holds what the snapshot
\* holds (a chat was removed, added or given another handle meanwhile).
C11_Witness ==
  \E p \in PassIds :
    /\ passes[p].pc = "delay"
    /\ Len(passes[p].fetched) = 2
    /\ passes[p].fetched = passes[p].entries
    /\ Snapshot(subscriptions.map) # passes[p].entries
    /\ \E k \in 1..2 :
         /\ passes[p].entries[k].chatId \in Keys(subscriptions.map)
         /\ Rec(subscriptions.map, passes[p].entries[k].chatId).tiktokHandle
              # passes[p].entries[k].tiktokHandle

\* the outcomes of a failed fetch, format or report send
Failures == {"fetchError", "formatError", "sendError"}

\* C12: when the fetch, the format or the report send of an entry fails, the
\* fallback notice is sent to that chat once; when the fallback send settles,
\* delivered or not, nothing is raised (the process runs, the pass is not
\* rejected), store and file are unchanged and the pass is at the pacing
\* delay of the same entry, from which it goes on to the next entry or
\* returns having fetched every entry with a handle.
C12_FallbackOnceAndSwallowed ==
  [][\A p \in PassIds :
       /\ (/\ passes[p].pc \in {"fetch", "send"}
           /\ passes'[p] # passes[p]
           /\ last'.outcome \in Failures) =>
            /\ passes'[p].pc = "fallback"
            /\ passes'[p].fallbacks = 1
            /\ passes'[p].i = passes[p].i
            /\ last'.chat = Cur(p)
       /\ (passes[p].pc = "fallback" /\ passes'[p] # passes[p]) =>
            /\ last'.op = "fallback"
            /\ last'.outcome \in {"sent", "swallowed"}
            /\ last'.chat = Cur(p)
            /\ passes'[p].pc = "delay"
            /\ passes'[p].fallbacks = 1
            /\ passes'[p].i = passes[p].i
            /\ passes'[p].entries = passes[p].entries
            /\ subscriptions' = subscriptions
            /\ file' = file
            /\ proc' = "running"
       /\ (passes[p].pc = "delay" /\ passes[p].errors > 0 /\ passes'[p] # passes[p]) =>
            /\ passes[p].fallbacks = 1
            /\ passes'[p].pc \in {"fetch", "idle"}
            /\ passes'[p].pc = "fetch" => passes'[p].i > passes[p].i
            /\ passes'[p].pc = "idle" =>
                 passes[p].fetched = WithHandle(passes[p].entries)
    ]_vars

\* C12 witness: the fetch, format or send of the first of two entries failed
\* (the report was not delivered), the fallback send failed too, and the
\* pass is at the pacing delay with the store still holding the chat unsent.
C12_Witness ==
  \E p \in PassIds :
    /\ last.op = "fallback"
    /\ last.outcome = "swallowed"
    /\ passes[p].pc = "delay"
    /\ passes[p].fallbacks = 1
    /\ ~passes[p].reported
    /\ passes[p].i < Len(passes[p].entries)
    /\ proc = "running"

\* C13: a save whose write fails raises nothing (the process runs and no
\* pass is rejected or sent to its error path) and the mutation stays in
\* memory: the added record, the removal, or the lastSentAt of a delivered
\* report, after which the pass is at its pacing delay with no error and no
\* fallback notice; and every save whose write succeeds leaves the file
\* holding the whole in-memory mapping, whatever earlier writes failed.
C13_FailedSaveKeepsMemory ==
  [][/\ last'.wrote = "failed" =>
          /\ proc' = "running"
          /\ \A p \in PassIds : passes'[p].pc # "rejected"
          /\ last'.op = "add" =>
               /\ Entry(last'.chat, last'.link, Null) \in AsMapping(subscriptions'.map)
               /\ passes' = passes
          /\ last'.op = "rem" =>
               /\ last'.chat \in Keys(subscriptions.map)
               /\ last'.chat \notin Keys(subscriptions'.map)
               /\ passes' = passes
          /\ last'.op = "send" =>
               /\ last'.outcome = "sent"
               /\ Rec(subscriptions'.map, last'.chat).lastSentAt = Stamp
               /\ \E p \in PassIds :
                    /\ passes[p].pc = "send"
                    /\ Cur(p) = last'.chat
                    /\ passes'[p].pc = "delay"
                    /\ passes'[p].reported
                    /\ passes'[p].errors = 0
                    /\ passes'[p].fallbacks = 0
     /\ last'.wrote = "ok" => file' = Stringify(subscriptions')
    ]_vars

\* C13 witness: a report was delivered and the save after it failed:
\* lastSentAt is set in memory, the file is behind, and the step ended
\* without error.
C13_Witness ==
  /\ last.op = "send"
  /\ last.outcome = "sent"
  /\ last.wrote = "failed"
  /\ proc = "running"
  /\ Rec(subscriptions.map, last.chat).lastSentAt = Stamp
  /\ file # Stringify(subscriptions)
  /\ \E p \in PassIds : passes[p].pc = "delay" /\ passes[p].fallbacks = 0

\* C14: in a pass, one entry is handled at a time and each handled entry,
\* delivered or failed, is followed by the pacing delay: a fetch is issued
\* only by the start of the pass or by the end of the delay of an earlier
\* entry; the delay starts only when the report send (delivered and
\* recorded) or the fallback send of the entry has settled; and between the
\* fetch of an entry and its delay the pass issues no other fetch.
C14_OneEntryAtATimeWithDelay ==
  [][\A p \in PassIds :
       /\ (passes'[p].pc = "fetch" /\ passes'[p] # passes[p]) =>
            \/ /\ passes[p].pc = "idle"
               /\ last'.op = "timer"
            \/ /\ passes[p].pc = "delay"
               /\ last'.op = "delay"
               /\ passes'[p].i > passes[p].i
               /\ Len(passes'[p].fetched) = Len(passes[p].fetched) + 1
       /\ (passes'[p].pc = "delay" /\ passes'[p] # passes[p]) =>
            /\ \/ passes[p].pc = "send" /\ last'.outcome = "sent"
               \/ passes[p].pc = "fallback" /\ last'.op = "fallback"
            /\ passes'[p].i = passes[p].i
       /\ (passes[p].pc \in {"fetch", "send", "fallback"} /\ passes'[p] # passes[p]) =>
            /\ passes'[p].pc \in {"send", "fallback", "delay"}
            /\ passes'[p].i = passes[p].i
            /\ passes'[p].fetched = passes[p].fetched
       /\ (passes[p].pc = "delay" /\ passes'[p] # passes[p]) =>
            /\ last'.op = "delay"
            /\ passes'[p].pc \in {"fetch", "idle"}
    ]_vars

\* C14 witness: the report of the first entry was delivered, its delay has
\* elapsed, and the fetch of the second entry is now in flight.
C14_Witness ==
  \E p \in PassIds :
    /\ last.op = "delay"
    /\ last.outcome = "next"
    /\ passes[p].pc = "fetch"
    /\ passes[p].i = 2
    /\ Len(passes[p].fetched) = 2

\* C15: a pass in progress ends, and ends only by returning from the delay
\* of its last entry with a handle, every such entry fetched; /start,
\* /add, /rem and /list change no pass. (Every fetch, send and delay
\* settles: Fairness.)
C15_PassRunsToCompletion ==
  /\ [][/\ \A p \in PassIds :
             (passes[p].pc \in Active /\ passes'[p].pc \notin Active) =>
               /\ passes'[p].pc = "idle"
               /\ passes[p].pc = "delay"
               /\ passes[p].fetched = WithHandle(passes[p].entries)
        /\ last'.op \in {"start", "add", "rem", "list"} => passes' = passes
       ]_vars
  /\ \A p \in PassIds : (passes[p].pc \in Active) ~> (passes[p].pc = "idle")

\* C15 witness: a pass has returned from the delay of an entry whose chat
\* was removed from the store while the pass was running.
C15_Witness ==
  /\ last.op = "delay"
  /\ last.outcome \in {"returned", "returnedAfterError"}
  /\ last.chat \notin Keys(subscriptions.map)
  /\ NoPassRunning

(***************************************************************************)
(* formatReportMessage applied to analytics whose top_posts is absent, not *)
(* an array, or an array of up to MaxPosts posts                           *)
(***************************************************************************)
\* posts told apart by their likes: like_count with a link to escape;
\* diggCount only, with an empty si_permalink before the permalink; nothing
PostKinds ==
  {Post(Text(<<"7">>), NullText, Text(<<"u", "&">>), NullText, NullText),
   Post(NullText, Text(<<"9">>), Text(<<>>), Text(<<"p">>), NullText),
   Post(NullText, NullText, NullText, NullText, NullText)}

RECURSIVE PostLists(_)
PostLists(n) ==
  IF n = 0 THEN {<<>>}
  ELSE PostLists(n - 1)
       \cup {Append(l, q) : l \in {m \in PostLists(n - 1) : Len(m) = n - 1}, q \in PostKinds}

Datas ==
  {NoData}
  \cup {Data(TopPostsObject(l)) : l \in PostLists(1)}
  \cup {Data(TopPostsArray(l)) : l \in PostLists(MaxPosts)}

InitFormat ==
  /\ data \in Datas
  /\ message = <<>>
  /\ last = Ev("input", "", 0, "", "pending", "none")
  /\ proc = "running"
  /\ BOT_ADMIN_ID = ""
  /\ subscriptions = JsObject(<<>>)
  /\ file = FileJson(<<>>)
  /\ passes = [p \in PassIds |-> IdlePass]
  /\ writeFailures = 0
  /\ escIn = NullText
  /\ escOut = <<>>

\* a call formatReportMessage(data)
Format ==
  /\ last.op = "input"
  /\ message' = formatReportMessage(data)
  /\ last' = Ev("formatReportMessage", "", 0, "", "returned", "none")
  /\ UNCHANGED <<proc, BOT_ADMIN_ID, subscriptions, file, passes, writeFailures,
                 escIn, escOut, data>>

SpecFormat == InitFormat /\ [][Format]_vars

\* the lines of msg of one kind
LinesOf(msg, kind) == SelectSeq(msg, LAMBDA l : l.kind = kind)

\* the number of posts C16 expects to be rendered
Rendered(tp) ==
  IF tp.kind # "array" THEN 0
  ELSE IF Len(tp.items) < 3 THEN Len(tp.items) ELSE 3

\* C16: the message has min(n, 3) numbered lines for an array top_posts of n
\* posts, numbered 1..min(n, 3), the j-th showing the likes of the j-th post
\* of the input; the top-videos header is there exactly when one post or
\* more is rendered, and the section is nothing but these lines and the
\* link lines of the rendered posts; an absent, non-array or empty
\* top_posts leaves the report at its fixed lines.
C16_TopThreeInOrder ==
  last.op = "formatReportMessage" =>
    LET k == Rendered(data.top_posts)
        numbered == LinesOf(message, "likes")
        section == SubSeq(message, Len(ReportHead) + 1, Len(message))
    IN  /\ SubSeq(message, 1, Len(ReportHead)) = ReportHead
        /\ Len(numbered) = k
        /\ \A j \in 1..k :
             /\ numbered[j].n = j
             /\ numbered[j].text = LikesOf(data.top_posts.items[j]).chars
        /\ Len(LinesOf(section, "topHeader")) = (IF k > 0 THEN 1 ELSE 0)
        /\ k = 0 => section = <<>>
        /\ k > 0 =>
             /\ section[2].kind = "topHeader"
             /\ Len(section) = 2 + k + Len(LinesOf(section, "link"))
             /\ Len(LinesOf(section, "link"))
                  = Cardinality({j \in 1..k : LinkOf(data.top_posts.items[j]).chars # <<>>})

\* C16 witness: five posts were given and the first three are rendered.
C16_Witness ==
  /\ last.op = "formatReportMessage"
  /\ data.top_posts.kind = "array"
  /\ Len(data.top_posts.items) = 5
  /\ Len(LinesOf(message, "likes")) = 3
  /\ data.top_posts.items[1] # data.top_posts.items[2]
  /\ data.top_posts.items[4] # data.top_posts.items[3]

(***************************************************************************)
(* The program while no command arrives: the interval timer and the steps  *)
(* of the invocations in progress, with fetches and sends that may take    *)
(* longer than the timer's period.                                         *)
(***************************************************************************)
NextTimer == TimerFire \/ PassStep

SpecTimer == Init /\ [][NextTimer]_vars

\* the invocations of runSchedulerCycle in progress
Running == {p \in PassIds : passes[p].pc \in Active}

\* C17: at most one pass is in progress at any time.
C17_PassesNeverOverlap == Cardinality(Running) <= 1

\* C18: for the entry a pass is handling, the report and the fallback
\* notice are never both sent: no fallback send is made once the report has
\* been delivered.
C18_ReportOrFallback ==
  \A p \in PassIds :
    passes[p].pc \in Active => ~(passes[p].reported /\ passes[p].fallbacks > 0)

\* C19: a record that a delivered send has just marked as sent holds the
\* handle the delivered report was fetched for.
C19_SentMeansCurrentHandle ==
  \A p \in PassIds :
    (/\ last.op = "send"
     /\ last.outcome = "sent"
     /\ passes[p].pc = "delay"
     /\ passes[p].reported
     /\ Cur(p) = last.chat) =>
      /\ Rec(subscriptions.map, Cur(p)).lastSentAt # Null
      /\ Rec(subscriptions.map, Cur(p)).tiktokHandle
           = passes[p].entries[passes[p].i].tiktokHandle

====
